---- MODULE Spec2Model ----
(***************************************************************************)
(* Matching engine of the job-linking platform: the skill normaliser, the  *)
(* skill extractor, the TF-IDF similarity scorer and the match ranker, as  *)
(* run by the HTTP handler of main.py and by the two Streamlit flows       *)
(* (matching_streamlit.py and inicio.py).                                  *)
(*                                                                         *)
(* A Python str is a sequence of characters; a character is a one-letter   *)
(* string, and an accented letter is written "e_ac", "i_ac", "o_ac".       *)
(***************************************************************************)
EXTENDS Integers, Sequences, FiniteSets, TLC

VARIABLES VACANTES, CURSOS, cv_texto, respuesta, norm, perfil, llamada

vars == <<VACANTES, CURSOS, cv_texto, respuesta, norm, perfil, llamada>>

(***************************************************************************)
(* Bounds of the model.                                                    *)
(***************************************************************************)
MaxVacantes == 2

MaxCursos == 2

SimScale == 100

MaxFragmentos == 3

MaxRequeridas == 2

(***************************************************************************)
(* Python str primitives.                                                  *)
(***************************************************************************)
Mayusculas ==
  [A |-> "a", B |-> "b", C |-> "c", D |-> "d", E |-> "e", F |-> "f", G |-> "g",
   H |-> "h", I |-> "i", J |-> "j", K |-> "k", L |-> "l", M |-> "m", N |-> "n",
   O |-> "o", P |-> "p", Q |-> "q", R |-> "r", S |-> "s", T |-> "t", U |-> "u",
   V |-> "v", W |-> "w", X |-> "x", Y |-> "y", Z |-> "z",
   E_ac |-> "e_ac", I_ac |-> "i_ac", O_ac |-> "o_ac"]

EspaciosBlancos == {" ", "\t", "\n"}

\* str.lower()
Lower(s) ==
  [i \in 1..Len(s) |-> IF s[i] \in DOMAIN Mayusculas THEN Mayusculas[s[i]] ELSE s[i]]

\* a strip that drops one blank at most from each end
Strip_un_espacio(s) ==
  LET a == IF s # <<>> /\ s[1] \in EspaciosBlancos THEN 2 ELSE 1
      b == IF Len(s) >= a /\ s[Len(s)] \in EspaciosBlancos THEN Len(s) - 1 ELSE Len(s)
  IN  SubSeq(s, a, b)

\* str.strip(): drops the leading and trailing whitespace
Strip(s) ==
  LET negros == {i \in 1..Len(s) : s[i] \notin EspaciosBlancos}
  IN  IF negros = {} THEN <<>>
      ELSE LET a == CHOOSE i \in negros : \A j \in negros : i <= j
               b == CHOOSE i \in negros : \A j \in negros : j <= i
           IN  SubSeq(s, a, b)

\* sub in s
Contiene(sub, s) ==
  \E i \in 0..(Len(s) - Len(sub)) : SubSeq(s, i + 1, i + Len(sub)) = sub

RECURSIVE Split(_)
\* str.split(','): the pieces between the commas, an empty str giving one empty piece
Split(s) ==
  LET comas == {i \in 1..Len(s) : s[i] = ","}
  IN  IF comas = {} THEN <<s>>
      ELSE LET c == CHOOSE i \in comas : \A j \in comas : i <= j
           IN  <<SubSeq(s, 1, c - 1)>> \o Split(SubSeq(s, c + 1, Len(s)))

RECURSIVE Unir(_)
\* the comma-separated cell that holds a list of skills in a catalog row
Unir(lista) ==
  IF lista = <<>> THEN <<>>
  ELSE IF Len(lista) = 1 THEN lista[1]
  ELSE lista[1] \o <<",", " ">> \o Unir(Tail(lista))

Rango(f) == {f[i] : i \in DOMAIN f}

(***************************************************************************)
(* normalizar_habilidad                                                    *)
(***************************************************************************)
T_estadistica == <<"e", "s", "t", "a", "d", "i", "s", "t", "i", "c", "a">>
T_estadistica_ac == <<"e", "s", "t", "a", "d", "i_ac", "s", "t", "i", "c", "a">>
T_trabajo_en_equipo == <<"t", "r", "a", "b", "a", "j", "o", " ", "e", "n", " ", "e", "q", "u", "i", "p", "o">>
T_equipo == <<"e", "q", "u", "i", "p", "o">>
T_resolucion == <<"r", "e", "s", "o", "l", "u", "c", "i", "o_ac", "n">>
T_problemas == <<"p", "r", "o", "b", "l", "e", "m", "a", "s">>
T_resolucion_de_problemas == <<"r", "e", "s", "o", "l", "u", "c", "i", "o_ac", "n", " ", "d", "e", " ", "p", "r", "o", "b", "l", "e", "m", "a", "s">>
T_python == <<"p", "y", "t", "h", "o", "n">>
T_sql == <<"s", "q", "l">>
T_excel == <<"e", "x", "c", "e", "l">>
T_javascript == <<"j", "a", "v", "a", "s", "c", "r", "i", "p", "t">>
T_node_js == <<"n", "o", "d", "e", ".", "j", "s">>
T_google_ads == <<"g", "o", "o", "g", "l", "e", " ", "a", "d", "s">>
T_seo == <<"s", "e", "o">>
T_docker == <<"d", "o", "c", "k", "e", "r">>
T_liderazgo == <<"l", "i", "d", "e", "r", "a", "z", "g", "o">>

terminos_clave ==
  <<T_python, T_sql, T_excel, T_javascript, T_node_js, T_google_ads, T_seo,
    T_docker, T_liderazgo>>

\* a normalizer that tries the teamwork rule before the statistics rule
normalizar_habilidad_equipo_primero(habilidad) ==
  LET h == Strip(Lower(habilidad))
      hallados == {i \in 1..Len(terminos_clave) : Contiene(terminos_clave[i], h)}
  IN  IF Contiene(T_trabajo_en_equipo, h) \/ Contiene(T_equipo, h)
        THEN T_trabajo_en_equipo
      ELSE IF Contiene(T_estadistica, h) THEN T_estadistica_ac
      ELSE IF Contiene(T_resolucion, h) /\ Contiene(T_problemas, h)
        THEN T_resolucion_de_problemas
      ELSE IF hallados # {}
        THEN terminos_clave[CHOOSE i \in hallados : \A j \in hallados : i <= j]
      ELSE h

normalizar_habilidad(habilidad) ==
  LET h == Strip(Lower(habilidad))
      hallados == {i \in 1..Len(terminos_clave) : Contiene(terminos_clave[i], h)}
  IN  IF Contiene(T_estadistica, h) THEN T_estadistica_ac
      ELSE IF Contiene(T_trabajo_en_equipo, h) \/ Contiene(T_equipo, h)
        THEN T_trabajo_en_equipo
      ELSE IF Contiene(T_resolucion, h) /\ Contiene(T_problemas, h)
        THEN T_resolucion_de_problemas
      ELSE IF hallados # {}
        THEN terminos_clave[CHOOSE i \in hallados : \A j \in hallados : i <= j]
      ELSE h

(***************************************************************************)
(* normalizar_habilidad on its own: the strings it is given are made of    *)
(* the markers of its rules, in either letter case, with blanks and other  *)
(* letters between them; a second call is given the result of the first.   *)
(***************************************************************************)
F_Estadistica == <<"E", "s", "t", "a", "d", "i", "s", "t", "i", "c", "a">>
F_Resolucion == <<"R", "e", "s", "o", "l", "u", "c", "i", "o_ac", "n">>
F_SQL == <<"S", "Q", "L">>
F_blanco == <<" ">>
F_x == <<"x">>

Fragmentos ==
  {F_Estadistica, T_equipo, F_Resolucion, T_problemas, T_python, F_SQL,
   T_node_js, F_blanco, F_x}

RECURSIVE Concatenar(_)
Concatenar(q) == IF q = <<>> THEN <<>> ELSE Head(q) \o Concatenar(Tail(q))

Frases ==
  {Concatenar(q) : q \in UNION {[1..k -> Fragmentos] : k \in 0..MaxFragmentos}}

\* habilidad is the argument of the first call, primera what it returned and
\* salida what the last call returned
SinLlamar(habilidad) ==
  [habilidad |-> habilidad, llamadas |-> 0, primera |-> <<>>, salida |-> <<>>]

(***************************************************************************)
(* PerfilCandidato and verificar_compatibilidad (inicio.py).  perfil is    *)
(* the list habilidades of the profile and llamada the last call made on   *)
(* it, with what it was given and what it returned.                        *)
(***************************************************************************)
SinLlamada ==
  [metodo |-> "ninguno", habilidad |-> <<>>, habilidades_requeridas |-> <<>>,
   score |-> 0, coincidentes |-> <<>>, faltantes |-> <<>>]

(***************************************************************************)
(* extraer_habilidades                                                     *)
(***************************************************************************)
\* an extractor that returns the known skills as the catalog spells them
extraer_habilidades_sin_normalizar(cv, lista_habilidades_conocidas) ==
  LET cv_texto_limpio == normalizar_habilidad(cv)
  IN  {k \in lista_habilidades_conocidas :
         Contiene(normalizar_habilidad(k), cv_texto_limpio)}

\* an extractor that scans the lowercased text instead of its normal form
extraer_habilidades_en_texto(cv, lista_habilidades_conocidas) ==
  LET habilidades_normalizadas ==
        {normalizar_habilidad(k) : k \in lista_habilidades_conocidas}
  IN  {h \in habilidades_normalizadas : Contiene(h, Lower(cv))}

extraer_habilidades(cv, lista_habilidades_conocidas) ==
  LET habilidades_normalizadas ==
        {normalizar_habilidad(k) : k \in lista_habilidades_conocidas}
      cv_texto_limpio == normalizar_habilidad(cv)
  IN  {h \in habilidades_normalizadas : Contiene(h, cv_texto_limpio)}

(***************************************************************************)
(* calcular_similitud_tfidf.  The vectorizer and the cosine are library    *)
(* calls: the model keeps the analyzer (lowercase, tokens of two or more   *)
(* word characters, English stop words dropped), the empty-vocabulary and  *)
(* the empty-matrix errors, and a cosine on the grid 0..SimScale taken     *)
(* over the term counts (0 exactly when the two documents share no term).  *)
(***************************************************************************)
W_the == <<"t", "h", "e">>
W_and == <<"a", "n", "d">>
W_of == <<"o", "f">>

\* part of the list stop_words='english' selects
PalabrasVacias == {W_the, W_and, W_of}

\* the characters the token pattern \b\w\w+\b does not match
Separadores == EspaciosBlancos \cup {".", ","}

RECURSIVE Palabras(_)
Palabras(s) ==
  IF s = <<>> THEN <<>>
  ELSE IF s[1] \in Separadores THEN Palabras(Tail(s))
  ELSE LET cortes == {i \in 1..Len(s) : s[i] \in Separadores}
           fin == IF cortes = {} THEN Len(s)
                  ELSE (CHOOSE i \in cortes : \A j \in cortes : i <= j) - 1
       IN  <<SubSeq(s, 1, fin)>> \o Palabras(SubSeq(s, fin + 1, Len(s)))

EsTermino(w) == Len(w) >= 2 /\ w \notin PalabrasVacias

\* the analyzer of TfidfVectorizer(stop_words='english', lowercase=True)
Analizador(doc) == SelectSeq(Palabras(Lower(doc)), EsTermino)

Cuenta(t, toks) == Cardinality({i \in 1..Len(toks) : toks[i] = t})

RECURSIVE Suma(_, _, _)
Suma(terminos, a, b) ==
  IF terminos = {} THEN 0
  ELSE LET t == CHOOSE x \in terminos : TRUE
       IN  Cuenta(t, a) * Cuenta(t, b) + Suma(terminos \ {t}, a, b)

\* cosine_similarity of two documents, in units of 1/SimScale
cosine_similarity(a, b) ==
  LET punto == Suma(Rango(a) \cap Rango(b), a, b)
      na == Suma(Rango(a), a, a)
      nb == Suma(Rango(b), b, b)
  IN  IF punto = 0 THEN 0
      ELSE CHOOSE r \in 0..SimScale :
             /\ r * r * na * nb <= SimScale * SimScale * punto * punto
             /\ \/ r = SimScale
                \/ (r + 1) * (r + 1) * na * nb > SimScale * SimScale * punto * punto

\* fit_transform over [cv] + descripciones, then the cosine of row 0 with the rest
Vectorizar(cv, descripciones) ==
  LET documentos == <<cv>> \o descripciones
      analizados == [i \in 1..Len(documentos) |-> Analizador(documentos[i])]
      vocabulario == UNION {Rango(analizados[i]) : i \in 1..Len(documentos)}
  IN  IF vocabulario = {}
        THEN [error |-> "ValueError: empty vocabulary", scores |-> <<>>]
      ELSE IF descripciones = <<>>
        THEN [error |-> "ValueError: array with 0 samples", scores |-> <<>>]
      ELSE [error |-> "",
            scores |-> [i \in 1..Len(descripciones) |->
                          cosine_similarity(analizados[1], analizados[i + 1])]]

(***************************************************************************)
(* The catalogs.  A field of a posting is present (Algun) or absent (Nada).*)
(***************************************************************************)
Algun(x) == [hay |-> TRUE, v |-> x]

Nada == [hay |-> FALSE, v |-> <<>>]

H_Python == <<"P", "y", "t", "h", "o", "n">>
H_Docker == <<"D", "o", "c", "k", "e", "r">>
H_Trabajo_en_equipo == <<"T", "r", "a", "b", "a", "j", "o", " ", "e", "n", " ", "e", "q", "u", "i", "p", "o">>
H_Node_js == <<"N", "o", "d", "e", ".", "j", "s">>
H_nodejs == <<"n", "o", "d", "e", "j", "s">>

D_escenario1 == <<"D", "e", "s", "a", "r", "r", "o", "l", "l", "o", " ", "b", "a", "c", "k", "e", "n", "d", " ", "e", "n", " ", "P", "y", "t", "h", "o", "n">>
D_ventas == <<"v", "e", "n", "t", "a", "s">>

CV_vacio == <<>>
CV_espacios == <<" ", "\t">>
CV_escenario1 == <<"T", "e", "n", "g", "o", " ", "e", "x", "p", "e", "r", "i", "e", "n", "c", "i", "a", " ", "e", "n", " ", "P", "y", "t", "h", "o", "n", " ", "y", " ", "t", "r", "a", "b", "a", "j", "o", " ", "e", "n", " ", "e", "q", "u", "i", "p", "o">>
CV_escenario2 == <<"S", "o", "l", "o", " ", "s", "e_ac", " ", "S", "Q", "L">>
CV_python == <<" ", "p", "y", "t", "h", "o", "n", " ">>
CV_the == <<"t", "h", "e">>
CV_estadistica == <<"E", "s", "t", "a", "d", "i", "s", "t", "i", "c", "a", " ", "y", " ", "P", "y", "t", "h", "o", "n">>

\* the postings a catalog is drawn from
Ofertas ==
  { [id |-> 1, descripcion |-> Algun(D_escenario1),
     tecnicos |-> Algun(<<H_Python>>), blandos |-> Algun(<<H_Trabajo_en_equipo>>)],
    [id |-> 2, descripcion |-> Algun(D_ventas),
     tecnicos |-> Algun(<<H_Python, H_Docker>>), blandos |-> Nada],
    [id |-> 3, descripcion |-> Nada,
     tecnicos |-> Algun(<<H_Node_js, H_nodejs>>), blandos |-> Algun(<<>>)],
    [id |-> 4, descripcion |-> Algun(W_the),
     tecnicos |-> Algun(<<>>), blandos |-> Algun(<<>>)],
    [id |-> 5, descripcion |-> Algun(H_Python),
     tecnicos |-> Algun(<<H_Python>>), blandos |-> Algun(<<>>)] }

\* the courses a course catalog is drawn from
Cursos ==
  { [habilidad |-> H_Python, titulo_curso |-> "Curso intensivo de Python"],
    [habilidad |-> H_Docker, titulo_curso |-> "Docker desde cero"],
    [habilidad |-> H_Trabajo_en_equipo, titulo_curso |-> "Taller de Liderazgo"] }

\* the texts a request carries
Textos ==
  {CV_vacio, CV_espacios, CV_escenario1, CV_escenario2, CV_python, CV_the,
   CV_estadistica}

\* the sequences without repetition of at most n elements of S
Secuencias(S, n) ==
  UNION {{q \in [1..k -> S] : \A i, j \in 1..k : q[i] = q[j] => i = j} : k \in 0..n}

(***************************************************************************)
(* How each entry point reads a posting.  A vista is the posting as the    *)
(* handler sees it: its identifier, its description and its two lists of   *)
(* raw skills; falta_req and falta_desc tell that indexing the field raises. *)
(***************************************************************************)
\* main.py: v.get(campo, '').split(',')
ListaMain(campo) == Split(IF campo.hay THEN Unir(campo.v) ELSE <<>>)

VistaMain(o) ==
  [vacante |-> o, id |-> o.id, falta_req |-> FALSE, falta_desc |-> FALSE,
   descripcion |-> IF o.descripcion.hay THEN o.descripcion.v ELSE <<>>,
   req_tec |-> ListaMain(o.tecnicos), req_blando |-> ListaMain(o.blandos)]

\* matching_streamlit.py: v['descripcion'], v['requisitos_tecnicos'], v['requisitos_blandos']
VistaStreamlit(o) ==
  [vacante |-> o, id |-> o.id,
   falta_req |-> ~(o.tecnicos.hay /\ o.blandos.hay),
   falta_desc |-> ~o.descripcion.hay,
   descripcion |-> o.descripcion.v,
   req_tec |-> o.tecnicos.v, req_blando |-> o.blandos.v]

\* inicio.py: [h.strip() for h in row[campo].split(",")]
ListaInicio(campo) ==
  LET piezas == Split(Unir(campo.v))
  IN  [i \in 1..Len(piezas) |-> Strip(piezas[i])]

VistaInicio(o) ==
  [vacante |-> o, id |-> o.id,
   falta_req |-> ~(o.tecnicos.hay /\ o.blandos.hay),
   falta_desc |-> ~o.descripcion.hay,
   descripcion |-> o.descripcion.v,
   req_tec |-> ListaInicio(o.tecnicos), req_blando |-> ListaInicio(o.blandos)]

(***************************************************************************)
(* The ranking, main.py lines 130-172 (copied in the two Streamlit flows). *)
(***************************************************************************)
\* the weights of the blend, in tenths
PesoCumplimiento == 6

PesoRelevancia == 4

\* main.py adds h.strip() of every piece; the Streamlit flows add the list entries
todas_habilidades_main(vistas) ==
  UNION {{Strip(h) : h \in Rango(vistas[i].req_tec) \cup Rango(vistas[i].req_blando)} :
           i \in 1..Len(vistas)}

todas_habilidades_streamlit(vistas) ==
  UNION {Rango(vistas[i].req_tec) \cup Rango(vistas[i].req_blando) : i \in 1..Len(vistas)}

\* the mapping posting identifier -> score, or the error the library raises
calcular_similitud_tfidf(cv, vistas) ==
  LET r == Vectorizar(cv, [i \in 1..Len(vistas) |-> vistas[i].descripcion])
      ids == {vistas[i].id : i \in 1..Len(vistas)}
      ultimo(d) == CHOOSE i \in 1..Len(vistas) :
                     /\ vistas[i].id = d
                     /\ \A j \in 1..Len(vistas) : vistas[j].id = d => j <= i
  IN  [error |-> r.error,
       scores |-> IF r.error # "" THEN [d \in {} |-> 0]
                  ELSE [d \in ids |-> r.scores[ultimo(d)]]]

\* tfidf_scores.get(id, 0)
Get(scores, d) == IF d \in DOMAIN scores THEN scores[d] ELSE 0

req_totales(vista) ==
  {normalizar_habilidad(h) : h \in Rango(vista.req_tec)}
    \cup {normalizar_habilidad(h) : h \in Rango(vista.req_blando)}

\* a loop that reports every detected skill, required by this posting or not
habilidades_cumplidas_sin_interseccion(habilidades_cv, req) == habilidades_cv

habilidades_cumplidas(habilidades_cv, req) == habilidades_cv \cap req

habilidades_faltantes(habilidades_cv, req) == req \ habilidades_cv

\* the integer nearest to num / den, a tie going to the even one
Round(num, den) ==
  LET q == num \div den
      r == num % den
  IN  IF 2 * r < den THEN q
      ELSE IF 2 * r > den THEN q + 1
      ELSE IF q % 2 = 0 THEN q ELSE q + 1

\* a blend that takes the count of matched skills for the coverage
puntaje_match_sin_dividir(cumplidas, requeridas, relevancia) ==
  Round(PesoCumplimiento * 1000 * cumplidas * SimScale
          + PesoRelevancia * 1000 * relevancia, SimScale)

\* round(puntaje_final * 100, 2) in hundredths of a point, with
\* score_cumplimiento = cumplidas / requeridas (0 when nothing is required)
\* and score_relevancia = relevancia / SimScale
puntaje_match(cumplidas, requeridas, relevancia) ==
  IF requeridas = 0
    THEN Round(PesoRelevancia * 1000 * relevancia, SimScale)
  ELSE Round(PesoCumplimiento * 1000 * cumplidas * SimScale
               + PesoRelevancia * 1000 * relevancia * requeridas,
             requeridas * SimScale)

\* a filter that compares the raw target skill of the course
cursos_recomendados_sin_normalizar(cursos, faltantes) ==
  LET Recomendado(curso) == curso.habilidad \in faltantes
  IN  SelectSeq(cursos, Recomendado)

cursos_recomendados(cursos, faltantes) ==
  LET Recomendado(curso) == normalizar_habilidad(curso.habilidad) \in faltantes
  IN  SelectSeq(cursos, Recomendado)

\* list(a_set): the order of iteration of a set of str depends on the hash seed
\* of the process, so every order is a possible outcome
Listas(S) ==
  {q \in [1..Cardinality(S) -> S] : \A i, j \in 1..Cardinality(S) : q[i] = q[j] => i = j}

\* the records one posting can append to resultados; req_totales,
\* score_cumplimiento and score_relevancia are the locals of the loop body
ResultadosDe(vista, habilidades_cv, tfidf_scores, cursos) ==
  LET req == req_totales(vista)
      cumplidas == habilidades_cumplidas(habilidades_cv, req)
      faltantes == habilidades_faltantes(habilidades_cv, req)
      relevancia == Get(tfidf_scores, vista.id)
  IN  { [vacante |-> vista.vacante,
         puntaje_match |-> puntaje_match(Cardinality(cumplidas), Cardinality(req), relevancia),
         habilidades_cumplidas |-> a,
         habilidades_faltantes |-> b,
         cursos_recomendados |-> cursos_recomendados(cursos, faltantes),
         req_totales |-> req,
         score_cumplimiento |-> IF req = {} THEN <<0, 1>>
                                ELSE <<Cardinality(cumplidas), Cardinality(req)>>,
         score_relevancia |-> relevancia] :
        a \in Listas(cumplidas), b \in Listas(faltantes) }

RECURSIVE Resultados(_, _, _, _)
\* the lists resultados the loop over the catalog can build
Resultados(vistas, habilidades_cv, tfidf_scores, cursos) ==
  IF vistas = <<>> THEN {<<>>}
  ELSE {Append(rs, r) :
          rs \in Resultados(SubSeq(vistas, 1, Len(vistas) - 1), habilidades_cv,
                            tfidf_scores, cursos),
          r \in ResultadosDe(vistas[Len(vistas)], habilidades_cv, tfidf_scores, cursos)}

RECURSIVE resultados_ordenados_inestable(_)
\* a sort that puts a record before the records of equal score
resultados_ordenados_inestable(resultados) ==
  IF resultados = <<>> THEN <<>>
  ELSE LET antes == resultados_ordenados_inestable(
                      SubSeq(resultados, 1, Len(resultados) - 1))
           x == resultados[Len(resultados)]
           k == Cardinality({i \in 1..Len(antes) :
                               antes[i].puntaje_match > x.puntaje_match})
       IN  SubSeq(antes, 1, k) \o <<x>> \o SubSeq(antes, k + 1, Len(antes))

RECURSIVE resultados_ordenados(_)
\* sorted(resultados, key=puntaje_match, reverse=True): stable
resultados_ordenados(resultados) ==
  IF resultados = <<>> THEN <<>>
  ELSE LET antes == resultados_ordenados(SubSeq(resultados, 1, Len(resultados) - 1))
           x == resultados[Len(resultados)]
           k == Cardinality({i \in 1..Len(antes) :
                               antes[i].puntaje_match >= x.puntaje_match})
       IN  SubSeq(antes, 1, k) \o <<x>> \o SubSeq(antes, k + 1, Len(antes))

(***************************************************************************)
(* The requests.  respuesta is what the last request returned or showed;   *)
(* pasos names the engine steps it ran and detectadas is the local         *)
(* habilidades_cv of the request.                                          *)
(***************************************************************************)
Respuesta(entrada, estado, error, resultados, pasos) ==
  [entrada |-> entrada, estado |-> estado, error |-> error,
   resultados |-> resultados, pasos |-> pasos, detectadas |-> {}]

Ninguna == Respuesta("ninguna", "ninguno", "", <<>>, {})

\* not cv_texto or not cv_texto.strip()
CvVacioMain(cv) == cv = <<>> \/ Strip(cv) = <<>>

\* a check that forgets the strip
CvVacioStreamlit_sin_strip(cv) == cv = <<>>

\* not cv_texto.strip()
CvVacioStreamlit(cv) == Strip(cv) = <<>>

\* steps 2 to 5 of the handler: extraction, similarity, the loop and the sort
Emparejar(entrada, cv, vistas, todas, cursos) ==
  LET habilidades_cv == extraer_habilidades(cv, todas)
      tfidf == calcular_similitud_tfidf(cv, vistas)
      Con(r) == [r EXCEPT !.detectadas = habilidades_cv]
  IN  IF \E i \in 1..Len(vistas) : vistas[i].falta_desc
        THEN {Con(Respuesta(entrada, "error", "KeyError: descripcion", <<>>,
                            {"extraer_habilidades"}))}
      ELSE IF tfidf.error # ""
        THEN {Con(Respuesta(entrada, "error", tfidf.error, <<>>,
                            {"extraer_habilidades", "vectorizador"}))}
      ELSE {Con(Respuesta(entrada, "ok", "", resultados_ordenados(rs),
                          {"extraer_habilidades", "vectorizador", "ranking"})) :
              rs \in Resultados(vistas, habilidades_cv, tfidf.scores, cursos)}

\* main.py: POST /match-jobs/
RespuestasMain(cv, vacantes, cursos) ==
  LET vistas == [i \in 1..Len(vacantes) |-> VistaMain(vacantes[i])]
  IN  IF CvVacioMain(cv)
        THEN {Respuesta("main", "rechazado", "HTTP 400", <<>>, {})}
      ELSE IF vacantes = <<>>
        THEN {Respuesta("main", "ok", "", <<>>, {})}
      ELSE Emparejar("main", cv, vistas, todas_habilidades_main(vistas), cursos)

\* matching_streamlit.py: the button "Analizar y Recomendar"
RespuestasStreamlit(cv, vacantes, cursos) ==
  LET vistas == [i \in 1..Len(vacantes) |-> VistaStreamlit(vacantes[i])]
  IN  IF CvVacioStreamlit(cv)
        THEN {Respuesta("streamlit", "rechazado", "st.error", <<>>, {})}
      ELSE IF \E i \in 1..Len(vistas) : vistas[i].falta_req
        THEN {Respuesta("streamlit", "error", "KeyError: requisitos", <<>>, {})}
      ELSE Emparejar("streamlit", cv, vistas, todas_habilidades_streamlit(vistas), cursos)

\* inicio.py: the same button, over the catalog converted from the table of offers
RespuestasInicio(cv, vacantes, cursos) ==
  LET vistas == [i \in 1..Len(vacantes) |-> VistaInicio(vacantes[i])]
  IN  IF CvVacioStreamlit(cv)
        THEN {Respuesta("inicio", "rechazado", "st.error", <<>>, {})}
      ELSE Emparejar("inicio", cv, vistas, todas_habilidades_streamlit(vistas), cursos)

Init ==
  /\ VACANTES \in Secuencias(Ofertas, MaxVacantes)
  /\ CURSOS \in Secuencias(Cursos, MaxCursos)
  /\ cv_texto = CV_vacio
  /\ respuesta = Ninguna
  /\ norm = SinLlamar(<<>>)
  /\ perfil = <<>>
  /\ llamada = SinLlamada

\* the user types a text in the text area, or the client fills the body of the request
EscribirCV ==
  /\ \E t \in Textos : cv_texto' = t
  /\ respuesta' = Ninguna
  /\ UNCHANGED <<VACANTES, CURSOS, norm, perfil, llamada>>

\* a handler that keeps the results of the request before in a module-level list
MatchJobs_con_memoria ==
  /\ \E r \in RespuestasMain(cv_texto, VACANTES, CURSOS) :
       respuesta' = [r EXCEPT !.resultados = respuesta.resultados \o r.resultados]
  /\ UNCHANGED <<VACANTES, CURSOS, cv_texto, norm, perfil, llamada>>

MatchJobs ==
  /\ \E r \in RespuestasMain(cv_texto, VACANTES, CURSOS) : respuesta' = r
  /\ UNCHANGED <<VACANTES, CURSOS, cv_texto, norm, perfil, llamada>>

AnalizarStreamlit ==
  /\ \E r \in RespuestasStreamlit(cv_texto, VACANTES, CURSOS) : respuesta' = r
  /\ UNCHANGED <<VACANTES, CURSOS, cv_texto, norm, perfil, llamada>>

\* the page reaches the button only when the conversion of the rows did not raise
AnalizarInicio ==
  /\ \A i \in 1..Len(VACANTES) :
       ~VistaInicio(VACANTES[i]).falta_req /\ ~VistaInicio(VACANTES[i]).falta_desc
  /\ \E r \in RespuestasInicio(cv_texto, VACANTES, CURSOS) : respuesta' = r
  /\ UNCHANGED <<VACANTES, CURSOS, cv_texto, norm, perfil, llamada>>

Next == EscribirCV \/ MatchJobs \/ AnalizarStreamlit \/ AnalizarInicio

Spec == Init /\ [][Next]_vars

(***************************************************************************)
(* The normalizer applied to the strings of Frases, once and then to its   *)
(* own result.                                                             *)
(***************************************************************************)
InitNorm ==
  /\ VACANTES = <<>>
  /\ CURSOS = <<>>
  /\ cv_texto = CV_vacio
  /\ respuesta = Ninguna
  /\ norm \in {SinLlamar(s) : s \in Frases}
  /\ perfil = <<>>
  /\ llamada = SinLlamada

Normalizar ==
  /\ norm.llamadas = 0
  /\ norm' = [norm EXCEPT !.llamadas = 1,
                          !.primera = normalizar_habilidad(norm.habilidad),
                          !.salida = normalizar_habilidad(norm.habilidad)]
  /\ UNCHANGED <<VACANTES, CURSOS, cv_texto, respuesta, perfil, llamada>>

NormalizarSalida ==
  /\ norm.llamadas = 1
  /\ norm' = [norm EXCEPT !.llamadas = 2,
                          !.salida = normalizar_habilidad(norm.salida)]
  /\ UNCHANGED <<VACANTES, CURSOS, cv_texto, respuesta, perfil, llamada>>

NextNorm == Normalizar \/ NormalizarSalida

SpecNorm == InitNorm /\ [][NextNorm]_vars

(***************************************************************************)
(* The profile of a candidate: skills are added one call at a time, and    *)
(* the profile is compared with offers.                                    *)
(***************************************************************************)
\* the skills a call names, in more than one letter case
Habilidades == {H_Python, T_python, F_SQL, T_sql}

\* the lists habilidades_requeridas of the offers
ListasRequeridas == UNION {[1..k -> Habilidades] : k \in 0..MaxRequeridas}

\* [h.lower() for h in lista]
Minusculas(lista) == [i \in 1..Len(lista) |-> Lower(lista[i])]

\* int(score), the score being a quotient of two lengths times 100
Entero(num, den) == (100 * num) \div den

InitPerfil ==
  /\ VACANTES = <<>>
  /\ CURSOS = <<>>
  /\ cv_texto = CV_vacio
  /\ respuesta = Ninguna
  /\ norm = SinLlamar(<<>>)
  /\ perfil = <<>>
  /\ llamada = SinLlamada

\* a profile that compares the skills as they are written
agregar_habilidad_exacta ==
  \E habilidad \in Habilidades :
    /\ perfil' = IF habilidad \notin Rango(perfil)
                   THEN Append(perfil, habilidad) ELSE perfil
    /\ llamada' = [SinLlamada EXCEPT !.metodo = "agregar_habilidad",
                                     !.habilidad = habilidad]
    /\ UNCHANGED <<VACANTES, CURSOS, cv_texto, respuesta, norm>>

agregar_habilidad ==
  \E habilidad \in Habilidades :
    /\ perfil' = IF Lower(habilidad) \notin Rango(Minusculas(perfil))
                   THEN Append(perfil, habilidad) ELSE perfil
    /\ llamada' = [SinLlamada EXCEPT !.metodo = "agregar_habilidad",
                                     !.habilidad = habilidad]
    /\ UNCHANGED <<VACANTES, CURSOS, cv_texto, respuesta, norm>>

verificar_compatibilidad ==
  \E habilidades_requeridas \in ListasRequeridas :
    LET habilidades_candidato == Minusculas(perfil)
        habilidades_oferta == Minusculas(habilidades_requeridas)
        comunes == Rango(habilidades_candidato) \cap Rango(habilidades_oferta)
        ausentes == Rango(habilidades_oferta) \ Rango(habilidades_candidato)
    IN  /\ \E coincidentes \in Listas(comunes), faltantes \in Listas(ausentes) :
             llamada' =
               [metodo |-> "verificar_compatibilidad",
                habilidad |-> <<>>,
                habilidades_requeridas |-> habilidades_requeridas,
                score |-> IF habilidades_oferta # <<>>
                            THEN Entero(Len(coincidentes), Len(habilidades_oferta))
                          ELSE 100,
                coincidentes |-> coincidentes,
                faltantes |-> faltantes]
        /\ UNCHANGED <<VACANTES, CURSOS, cv_texto, respuesta, norm, perfil>>

NextPerfil == agregar_habilidad \/ verificar_compatibilidad

SpecPerfil == InitPerfil /\ [][NextPerfil]_vars

(***************************************************************************)
(* Properties.                                                             *)
(***************************************************************************)
\* the posting as the entry point of the last request read it
VistaDe(entrada, o) ==
  IF entrada = "main" THEN VistaMain(o)
  ELSE IF entrada = "streamlit" THEN VistaStreamlit(o)
  ELSE VistaInicio(o)

\* the canonical forms of the two requirement lists of the posting of a result
Requeridas(r) == req_totales(VistaDe(respuesta.entrada, r.vacante))

Posicion(o) == CHOOSE k \in 1..Len(VACANTES) : VACANTES[k] = o

SinLista(campo) == ~campo.hay \/ campo.v = <<>>

EnBlanco(cv) == \A i \in 1..Len(cv) : cv[i] \in EspaciosBlancos

\* C1: when the canonical form of every required skill of a posting occurs in
\* the resume text, the request reports all of them as matched, nothing
\* missing, coverage 1 and a final score of at least 60.
C1_RequisitosPresentes ==
  respuesta.estado = "ok" =>
    \A i \in 1..Len(respuesta.resultados) :
      LET r == respuesta.resultados[i]
      IN  (Requeridas(r) # {}
             /\ \A h \in Requeridas(r) : Contiene(h, Lower(cv_texto)))
            => /\ Rango(r.habilidades_cumplidas) = Requeridas(r)
               /\ r.habilidades_faltantes = <<>>
               /\ r.score_cumplimiento[1] = r.score_cumplimiento[2]
               /\ r.puntaje_match >= 6000

\* C2: the result list is in non-increasing order of match score, and two
\* postings of equal score keep the relative order they have in the catalog.
C2_OrdenEstable ==
  respuesta.estado = "ok" =>
    \A i, j \in 1..Len(respuesta.resultados) :
      i < j =>
        LET a == respuesta.resultados[i]
            b == respuesta.resultados[j]
        IN  /\ a.puntaje_match >= b.puntaje_match
            /\ a.puntaje_match = b.puntaje_match
                 => Posicion(a.vacante) < Posicion(b.vacante)

\* a request answered with two postings of the same score above 0
C2_Testigo ==
  /\ respuesta.estado = "ok"
  /\ Len(respuesta.resultados) = 2
  /\ respuesta.resultados[1].puntaje_match = respuesta.resultados[2].puntaje_match
  /\ respuesta.resultados[1].puntaje_match > 0

\* C3: for every posting of every request, the matched set and the missing
\* set partition the required set of the posting.
C3_Particion ==
  respuesta.estado = "ok" =>
    \A i \in 1..Len(respuesta.resultados) :
      LET r == respuesta.resultados[i]
          cumplidas == Rango(r.habilidades_cumplidas)
          faltantes == Rango(r.habilidades_faltantes)
      IN  /\ cumplidas \cup faltantes = Requeridas(r)
          /\ cumplidas \cap faltantes = {}

\* a result with matched and with missing skills, next to a posting that
\* requires other skills
C3_Testigo ==
  /\ respuesta.estado = "ok"
  /\ \E i, j \in 1..Len(respuesta.resultados) :
       /\ respuesta.resultados[i].habilidades_cumplidas # <<>>
       /\ respuesta.resultados[i].habilidades_faltantes # <<>>
       /\ Requeridas(respuesta.resultados[i]) # Requeridas(respuesta.resultados[j])

\* C4: the match score of every result is between 0 and 100 (0 and 10000
\* hundredths of a point).
C4_PuntajeAcotado ==
  respuesta.estado = "ok" =>
    \A i \in 1..Len(respuesta.resultados) :
      /\ respuesta.resultados[i].puntaje_match >= 0
      /\ respuesta.resultados[i].puntaje_match <= 10000

\* a result with full coverage of two required skills and full relevance
C4_Testigo ==
  /\ respuesta.estado = "ok"
  /\ \E i \in 1..Len(respuesta.resultados) :
       /\ respuesta.resultados[i].puntaje_match = 10000
       /\ respuesta.resultados[i].score_cumplimiento = <<2, 2>>

\* C5: a request against an empty catalog is not an error: it returns an
\* empty result list and the vectorizer is not invoked, at every entry point.
C5_CatalogoVacio ==
  (VACANTES = <<>> /\ respuesta.entrada # "ninguna" /\ ~EnBlanco(cv_texto))
    => /\ respuesta.estado = "ok"
       /\ respuesta.resultados = <<>>
       /\ "vectorizador" \notin respuesta.pasos

\* C6: a request whose resume text is empty or only whitespace is rejected
\* with a validation error before any engine step runs, and no result is
\* returned or shown.
C6_CvVacioRechazado ==
  (respuesta.entrada # "ninguna" /\ EnBlanco(cv_texto))
    => /\ respuesta.estado = "rechazado"
       /\ respuesta.pasos = {}
       /\ respuesta.resultados = <<>>

\* a Streamlit request with a text of whitespace only, against a catalog with postings
C6_Testigo ==
  /\ respuesta.entrada = "streamlit"
  /\ respuesta.estado = "rechazado"
  /\ cv_texto = CV_espacios
  /\ VACANTES # <<>>

\* C7: two runs of the request with the same text and the same catalogs
\* return the same ordered result, the lists of matched and missing skills
\* included.
C7_Determinismo ==
  [][(/\ respuesta.entrada # "ninguna"
      /\ respuesta'.entrada = respuesta.entrada
      /\ cv_texto' = cv_texto
      /\ VACANTES' = VACANTES
      /\ CURSOS' = CURSOS)
       => respuesta' = respuesta]_vars

\* C8: "Node.js" and "nodejs" both normalize to "node.js", wherever a catalog
\* names them.
C8_NodeJs ==
  \A i \in 1..Len(VACANTES) :
    \A h \in Rango(VACANTES[i].tecnicos.v) \cup Rango(VACANTES[i].blandos.v) :
      h \in {H_Node_js, H_nodejs} => normalizar_habilidad(h) = T_node_js

\* C9: a posting with only one of its two requirement lists (the other
\* missing or empty) has as required set exactly the canonical forms of the
\* skills of the list that is present.
C9_UnaSolaLista ==
  respuesta.estado = "ok" =>
    \A i \in 1..Len(respuesta.resultados) :
      LET r == respuesta.resultados[i]
          o == r.vacante
          presente == IF SinLista(o.blandos) THEN o.tecnicos.v ELSE o.blandos.v
      IN  (SinLista(o.tecnicos) # SinLista(o.blandos))
            => Rango(r.habilidades_cumplidas) \cup Rango(r.habilidades_faltantes)
                 = {normalizar_habilidad(h) : h \in Rango(presente)}

\* C10: the recommended courses of a result are exactly the courses of the
\* catalog whose normalized target skill is in the missing set of the
\* posting, in catalog order.
C10_CursosRecomendados ==
  respuesta.estado = "ok" =>
    \A i \in 1..Len(respuesta.resultados) :
      LET r == respuesta.resultados[i]
          faltantes == Rango(r.habilidades_faltantes)
          elegidos == {k \in 1..Len(CURSOS) :
                         normalizar_habilidad(CURSOS[k].habilidad) \in faltantes}
      IN  /\ Len(r.cursos_recomendados) = Cardinality(elegidos)
          /\ \A n \in 1..Len(r.cursos_recomendados) :
               \E k \in elegidos :
                 /\ Cardinality({m \in elegidos : m <= k}) = n
                 /\ r.cursos_recomendados[n] = CURSOS[k]

\* one result recommends the two courses of the catalog, another one of them only
C10_Testigo ==
  /\ respuesta.estado = "ok"
  /\ Len(CURSOS) = 2
  /\ \E i, j \in 1..Len(respuesta.resultados) :
       /\ respuesta.resultados[i].cursos_recomendados = CURSOS
       /\ Len(respuesta.resultados[j].cursos_recomendados) = 1

\* the known skills the entry point of the last request gathers from the catalog
Conocidas ==
  LET vistas == [i \in 1..Len(VACANTES) |-> VistaDe(respuesta.entrada, VACANTES[i])]
  IN  IF respuesta.entrada = "main" THEN todas_habilidades_main(vistas)
      ELSE todas_habilidades_streamlit(vistas)

\* C11: the skills a request detects in the resume are exactly the normal
\* forms of the known skills that are substrings of the normal form of the
\* whole resume text, so they are a subset of the normalized known skills.
C11_Extraccion ==
  "extraer_habilidades" \in respuesta.pasos =>
    /\ \A k \in Conocidas :
         Contiene(normalizar_habilidad(k), normalizar_habilidad(cv_texto))
           <=> normalizar_habilidad(k) \in respuesta.detectadas
    /\ \A h \in respuesta.detectadas :
         \E k \in Conocidas : h = normalizar_habilidad(k)

\* a request that detects one known skill and does not detect another
C11_Testigo ==
  /\ "extraer_habilidades" \in respuesta.pasos
  /\ respuesta.detectadas # {}
  /\ \E k \in Conocidas : normalizar_habilidad(k) \notin respuesta.detectadas

\* C12: normalizar_habilidad applies its rules in a fixed order and the first
\* match wins: the statistics marker, then the teamwork marker, then the
\* resolution and problems markers together, then the first term of the
\* ordered key-term list the string contains, else the cleaned string.
C12_PrimeraReglaGana ==
  norm.llamadas >= 1 =>
    LET h == Strip(Lower(norm.habilidad))
        estadistica == Contiene(T_estadistica, h)
        equipo == Contiene(T_trabajo_en_equipo, h) \/ Contiene(T_equipo, h)
        problemas == Contiene(T_resolucion, h) /\ Contiene(T_problemas, h)
        Primero(i) ==
          /\ Contiene(terminos_clave[i], h)
          /\ \A j \in 1..(i - 1) : ~Contiene(terminos_clave[j], h)
        clave == \E i \in 1..Len(terminos_clave) : Primero(i)
    IN  /\ estadistica => norm.primera = T_estadistica_ac
        /\ (~estadistica /\ equipo) => norm.primera = T_trabajo_en_equipo
        /\ (~estadistica /\ ~equipo /\ problemas)
             => norm.primera = T_resolucion_de_problemas
        /\ (~estadistica /\ ~equipo /\ ~problemas)
             => \A i \in 1..Len(terminos_clave) :
                  Primero(i) => norm.primera = terminos_clave[i]
        /\ (~estadistica /\ ~equipo /\ ~problemas /\ ~clave) => norm.primera = h

\* a string with the statistics, the teamwork and a key-term marker, normalized
C12_Testigo ==
  /\ norm.llamadas >= 1
  /\ Contiene(T_estadistica, Lower(norm.habilidad))
  /\ Contiene(T_equipo, norm.habilidad)
  /\ Contiene(T_python, norm.habilidad)
  /\ norm.primera = T_estadistica_ac

\* C13: when the resume text contains the statistics marker, the text the
\* extractor scans is exactly the accented statistics term: the detected
\* skills are the known skills whose normal form is a substring of that
\* term, and no other known skill is detected or reported as matched.
C13_SoloEstadistica ==
  ("extraer_habilidades" \in respuesta.pasos
     /\ Contiene(T_estadistica, Lower(cv_texto)))
    => /\ respuesta.detectadas =
            {h \in {normalizar_habilidad(k) : k \in Conocidas} :
               Contiene(h, T_estadistica_ac)}
       /\ \A i \in 1..Len(respuesta.resultados) :
            \A h \in Rango(respuesta.resultados[i].habilidades_cumplidas) :
              Contiene(h, T_estadistica_ac)

\* a resume that names statistics and Python, answered with Python missing
C13_Testigo ==
  /\ respuesta.estado = "ok"
  /\ Contiene(T_estadistica, Lower(cv_texto))
  /\ Contiene(T_python, Lower(cv_texto))
  /\ \E i \in 1..Len(respuesta.resultados) :
       T_python \in Rango(respuesta.resultados[i].habilidades_faltantes)

\* C14: a posting with no stated requirements (both lists empty or absent)
\* gets coverage 0, so its score comes from relevance alone and is at most 40.
C14_SinRequisitos ==
  respuesta.estado = "ok" =>
    \A i \in 1..Len(respuesta.resultados) :
      LET r == respuesta.resultados[i]
      IN  (SinLista(r.vacante.tecnicos) /\ SinLista(r.vacante.blandos))
            => /\ r.score_cumplimiento[1] = 0
               /\ r.puntaje_match = Round(PesoRelevancia * 1000 * r.score_relevancia, SimScale)
               /\ r.puntaje_match <= 4000

\* the terms the vectorizer would learn from the resume and the descriptions
Vocabulario ==
  Rango(Analizador(cv_texto))
    \cup UNION {Rango(Analizador(VACANTES[i].descripcion.v)) : i \in 1..Len(VACANTES)}

\* the entry point of the last request finds every field it indexes
CamposPresentes(campos) ==
  \A i \in 1..Len(VACANTES) :
    LET vista == VistaDe(respuesta.entrada, VACANTES[i])
    IN  /\ "requisitos" \in campos => ~vista.falta_req
        /\ "descripcion" \in campos => ~vista.falta_desc

\* C15: when the resume and the descriptions leave no term after stop-word
\* removal, the scorer does not raise: every posting gets relevance 0 and
\* the request still returns a result for every posting.
C15_VocabularioVacio ==
  (/\ respuesta.entrada # "ninguna"
   /\ ~EnBlanco(cv_texto)
   /\ VACANTES # <<>>
   /\ CamposPresentes({"requisitos", "descripcion"})
   /\ Vocabulario = {})
    => /\ respuesta.estado = "ok"
       /\ Len(respuesta.resultados) = Len(VACANTES)
       /\ \A i \in 1..Len(respuesta.resultados) :
            respuesta.resultados[i].score_relevancia = 0

\* C16: a posting with no description is scored as if its description were
\* the empty string: the request does not raise, that posting gets relevance
\* 0 and every posting gets a result.
C16_SinDescripcion ==
  (/\ respuesta.entrada # "ninguna"
   /\ ~EnBlanco(cv_texto)
   /\ CamposPresentes({"requisitos"})
   /\ Vocabulario # {}
   /\ \E i \in 1..Len(VACANTES) : ~VACANTES[i].descripcion.hay)
    => /\ respuesta.estado = "ok"
       /\ Len(respuesta.resultados) = Len(VACANTES)
       /\ \A i \in 1..Len(respuesta.resultados) :
            ~respuesta.resultados[i].vacante.descripcion.hay
              => respuesta.resultados[i].score_relevancia = 0

\* what a request with these three inputs can return at an entry point
RespuestasDe(entrada, cv, vacantes, cursos) ==
  IF entrada = "main" THEN RespuestasMain(cv, vacantes, cursos)
  ELSE IF entrada = "streamlit" THEN RespuestasStreamlit(cv, vacantes, cursos)
  ELSE RespuestasInicio(cv, vacantes, cursos)

\* C17: a request has no side effects: every step leaves the posting catalog
\* and the course catalog as they were, and after any sequence of requests
\* what the last one returned is one of the results its resume text and the
\* two catalogs determine, whatever the requests before it returned.
C17_SinEfectos ==
  /\ [][VACANTES' = VACANTES /\ CURSOS' = CURSOS]_vars
  /\ [](respuesta.entrada # "ninguna"
          => respuesta \in RespuestasDe(respuesta.entrada, cv_texto, VACANTES, CURSOS))

\* a request to the HTTP handler answered with two results and a recommended course
C17_Testigo ==
  /\ respuesta.entrada = "main"
  /\ respuesta.estado = "ok"
  /\ Len(respuesta.resultados) = 2
  /\ \E i \in 1..2 : respuesta.resultados[i].cursos_recomendados # <<>>

\* the entries of the list, ignoring case, are all different
SinRepetidas(lista) ==
  \A i, j \in 1..Len(lista) : Lower(lista[i]) = Lower(lista[j]) => i = j

\* C18: agregar_habilidad leaves habilidades unchanged when the skill equals,
\* ignoring case, one already in the list, and otherwise appends exactly that
\* skill at the end; so on a profile that starts with no skills no two
\* entries of habilidades are equal ignoring case.
C18_AgregarHabilidad ==
  [][llamada'.metodo = "agregar_habilidad" =>
       /\ (\E i \in 1..Len(perfil) : Lower(perfil[i]) = Lower(llamada'.habilidad))
            => perfil' = perfil
       /\ (\A i \in 1..Len(perfil) : Lower(perfil[i]) # Lower(llamada'.habilidad))
            => perfil' = perfil \o <<llamada'.habilidad>>
       /\ SinRepetidas(perfil')]_vars

\* a call with "python" on a profile that already holds "Python" and "SQL"
C18_Testigo ==
  /\ llamada.metodo = "agregar_habilidad"
  /\ llamada.habilidad = T_python
  /\ perfil = <<H_Python, F_SQL>>

\* C19: verificar_compatibilidad returns score 100 exactly when the faltantes
\* it returns is empty, that is when every required skill of the offer is,
\* ignoring case, among the skills of the candidate, also for required lists
\* with repeated skills; and the score is between 0 and 100.
C19_ScoreCompleto ==
  llamada.metodo = "verificar_compatibilidad" =>
    /\ llamada.score = 100 <=> llamada.faltantes = <<>>
    /\ llamada.faltantes = <<>>
         <=> \A i \in 1..Len(llamada.habilidades_requeridas) :
               \E j \in 1..Len(perfil) :
                 Lower(perfil[j]) = Lower(llamada.habilidades_requeridas[i])
    /\ llamada.score >= 0
    /\ llamada.score <= 100

\* C20: normalizar_habilidad is idempotent: applied to its own result it
\* returns that result again.
C20_Idempotente ==
  norm.llamadas = 2 => norm.salida = norm.primera

\* a string with blanks around the two markers of the third rule, normalized
\* and then normalized again
C20_Testigo ==
  /\ norm.llamadas = 2
  /\ norm.habilidad # Strip(norm.habilidad)
  /\ norm.primera = T_resolucion_de_problemas

====
